---- MODULE Spec2Model ----
(***************************************************************************)
(* PagedMenu of pyutils8ccr/menu.py: the constructor's validation, the     *)
(* pagination helpers, navigate and the run loop.                          *)
(*                                                                         *)
(* A Python str is a sequence of one-character strings: "ab" is            *)
(* <<"a", "b">> and "" is <<>>; the literal text of an f-string is kept    *)
(* as one element ("Error: ").  Item values and default are opaque         *)
(* values, written as TLA+ strings.  The session ends when run returns.    *)
(***************************************************************************)
EXTENDS Integers, Sequences, FiniteSets, TLC

(***************************************************************************)
(* Bounds of the model.                                                    *)
(***************************************************************************)
MaxItems == 5
MaxPageSize == 3
MaxKeysLen == 3
MaxProbe == 4
MaxListLen == 2

(***************************************************************************)
(* Python values.                                                          *)
(***************************************************************************)
\* None, where a str is expected (first_page_key, last_page_key).
None == <<"<None>">>

\* An instance attribute that has not been assigned yet.
Unset == "<unset>"

\* bool(s) of a str-or-None s.
Truthy(s) == s # None /\ s # <<>>

\* s[i:i+len(sub)] == sub, with i counted from 0.
MatchesAt(sub, s, i) ==
    /\ i + Len(sub) <= Len(s)
    /\ \A j \in 1..Len(sub) : s[i + j] = sub[j]

\* sub in s, for two str: sub occurs in s as a substring.
StrIn(sub, s) == \E i \in 0..Len(s) : MatchesAt(sub, s, i)

\* s.index(sub): the lowest position, from 0, where sub occurs in s.
StrIndex(sub, s) ==
    CHOOSE i \in 0..Len(s) :
        /\ MatchesAt(sub, s, i)
        /\ \A j \in 0..(i - 1) : ~MatchesAt(sub, s, j)

\* A slice bound as Python normalises it: negative counts from the end,
\* then it is clipped to [0, len].
SliceBound(n, len) ==
    LET m == IF n < 0 THEN n + len ELSE n
    IN  IF m < 0 THEN 0 ELSE IF m > len THEN len ELSE m

\* s[start:end]
PySlice(s, start, end) ==
    LET a == SliceBound(start, Len(s))
        b == SliceBound(end, Len(s))
    IN  IF a >= b THEN <<>> ELSE SubSeq(s, a + 1, b)

\* min(a, b)
Min(a, b) == IF a <= b THEN a ELSE b

Whitespace == {" "}

\* str.strip(): leading and trailing whitespace removed.
RECURSIVE LStrip(_)
LStrip(s) ==
    IF s # <<>> /\ Head(s) \in Whitespace THEN LStrip(Tail(s)) ELSE s

RECURSIVE RStrip(_)
RStrip(s) ==
    IF s # <<>> /\ s[Len(s)] \in Whitespace
    THEN RStrip(SubSeq(s, 1, Len(s) - 1))
    ELSE s

Strip(s) == RStrip(LStrip(s))

Digits == <<"0", "1", "2", "3", "4", "5", "6", "7", "8", "9">>

\* str(n) of an int n, as in f"{page + 1}/{self.total_pages}".
RECURSIVE NatStr(_)
NatStr(n) ==
    IF n < 10 THEN <<Digits[n + 1]>>
    ELSE NatStr(n \div 10) \o <<Digits[(n % 10) + 1]>>

IntStr(n) == IF n < 0 THEN <<"-">> \o NatStr(0 - n) ELSE NatStr(n)

\* sep.join(lines)
RECURSIVE Join(_, _)
Join(sep, lines) ==
    IF lines = <<>> THEN <<>>
    ELSE IF Len(lines) = 1 THEN lines[1]
    ELSE lines[1] \o sep \o Join(sep, Tail(lines))

(***************************************************************************)
(* MenuItem                                                                *)
(***************************************************************************)
\* str(value): values are str already.
StrOf(value) == <<value>>

\* hash(value)
HashOf(value) == <<"hash", value>>

\* MenuItem(value, name, id); name and id default when None.
MenuItem(value, name, id) ==
    [value |-> value,
     name  |-> IF name # None THEN name ELSE StrOf(value),
     id    |-> IF id # None THEN id ELSE HashOf(value)]

\* InvalidMenuKeyError(key), and the outcome of a call that raised nothing.
InvalidMenuKeyError(key) == [raised |-> TRUE, key |-> key]
NoError == [raised |-> FALSE, key |-> <<>>]

(***************************************************************************)
(* PagedMenu: construction                                                 *)
(***************************************************************************)
\* A list-or-None argument is used only when it is truthy.
ListGiven(l) == l # None /\ l # <<>>

\* A faulty parse_items: the bare values are put before the raw items.
ParseItemsValuesFirst(menu_items, value_items, named_items, id_items) ==
    LET i1 == IF ListGiven(menu_items) THEN menu_items ELSE <<>>
        i2 == IF ListGiven(value_items)
              THEN [k \in 1..Len(value_items) |->
                        MenuItem(value_items[k], None, None)]
              ELSE <<>>
        i3 == IF ListGiven(named_items)
              THEN [k \in 1..Len(named_items) |->
                        MenuItem(named_items[k][2], named_items[k][1], None)]
              ELSE <<>>
        i4 == IF ListGiven(id_items)
              THEN [k \in 1..Len(id_items) |->
                        MenuItem(id_items[k][1], id_items[k][2], id_items[k][3])]
              ELSE <<>>
    IN  i2 \o i1 \o i3 \o i4

parse_items(menu_items, value_items, named_items, id_items) ==
    LET i1 == IF ListGiven(menu_items) THEN menu_items ELSE <<>>
        i2 == IF ListGiven(value_items)
              THEN [k \in 1..Len(value_items) |->
                        MenuItem(value_items[k], None, None)]
              ELSE <<>>
        i3 == IF ListGiven(named_items)
              THEN [k \in 1..Len(named_items) |->
                        MenuItem(named_items[k][2], named_items[k][1], None)]
              ELSE <<>>
        i4 == IF ListGiven(id_items)
              THEN [k \in 1..Len(id_items) |->
                        MenuItem(id_items[k][1], id_items[k][2], id_items[k][3])]
              ELSE <<>>
    IN  i1 \o i2 \o i3 \o i4

\* A faulty ConfigError: the previous-page collision is checked before the
\* next-page collision.
ConfigErrorPreviousFirst(a) ==
    IF a.page_size < 2 THEN "Page size less than 2"
    ELSE IF a.keys = <<>> \/ Len(a.keys) < 2 THEN "Less than 2 keys defined"
    ELSE IF Len(a.keys) < a.page_size THEN "Not enough keys for the page size"
    ELSE IF StrIn(a.previous_page_key, a.keys)
         THEN "Previous page key cannot be used as menu key"
    ELSE IF StrIn(a.next_page_key, a.keys)
         THEN "Next page key cannot be used as menu key"
    ELSE IF Truthy(a.first_page_key) /\ StrIn(a.first_page_key, a.keys)
         THEN "First page key cannot be used as menu key"
    ELSE IF Truthy(a.last_page_key) /\ StrIn(a.last_page_key, a.keys)
         THEN "Last page key cannot be used as menu key"
    ELSE ""

\* The ValueError the constructor raises for arguments a, "" when it raises
\* none: the checks in the order of the code, the first failing one wins.
ConfigError(a) ==
    IF a.page_size < 2 THEN "Page size less than 2"
    ELSE IF a.keys = <<>> \/ Len(a.keys) < 2 THEN "Less than 2 keys defined"
    ELSE IF Len(a.keys) < a.page_size THEN "Not enough keys for the page size"
    ELSE IF StrIn(a.next_page_key, a.keys)
         THEN "Next page key cannot be used as menu key"
    ELSE IF StrIn(a.previous_page_key, a.keys)
         THEN "Previous page key cannot be used as menu key"
    ELSE IF Truthy(a.first_page_key) /\ StrIn(a.first_page_key, a.keys)
         THEN "First page key cannot be used as menu key"
    ELSE IF Truthy(a.last_page_key) /\ StrIn(a.last_page_key, a.keys)
         THEN "Last page key cannot be used as menu key"
    ELSE ""

\* self.page_size = min(page_size, len(keys))
EffectivePageSize(a) == Min(a.page_size, Len(a.keys))

\* A faulty ActiveKeys: the configured keys are kept whole.
ActiveKeysUntrimmed(a) == a.keys

\* self.keys = keys[:self.page_size]
ActiveKeys(a) == PySlice(a.keys, 0, EffectivePageSize(a))

\* A faulty TotalPages: the division rounds down.
TotalPagesFloor(n, page_size) == n \div page_size

\* self.total_pages = (len(self.items) + self.page_size - 1) // self.page_size
TotalPages(n, page_size) == (n + page_size - 1) \div page_size

\* The object a successful constructor call leaves: selected and
\* selected_value are not assigned before run or navigate assigns them.
PagedMenu(a) ==
    LET items == parse_items(a.menu_items, a.value_items,
                             a.named_items, a.id_items)
    IN  [items             |-> items,
         page_size         |-> EffectivePageSize(a),
         current_page      |-> 0,
         keys              |-> ActiveKeys(a),
         next_page_key     |-> a.next_page_key,
         previous_page_key |-> a.previous_page_key,
         first_page_key    |-> a.first_page_key,
         last_page_key     |-> a.last_page_key,
         default           |-> a.default,
         total_pages       |-> TotalPages(Len(items), EffectivePageSize(a)),
         status            |-> <<>>,
         selected          |-> Unset,
         selected_value    |-> Unset]

(***************************************************************************)
(* PagedMenu: pagination and rendering                                     *)
(***************************************************************************)
\* A faulty get_page_items: the slice ends one item early.
GetPageItemsShort(self, page) ==
    LET start == page * self.page_size
        end   == start + self.page_size - 1
    IN  PySlice(self.items, start, end)

get_page_items(self, page) ==
    LET start == page * self.page_size
        end   == start + self.page_size
    IN  PySlice(self.items, start, end)

\* f"{self.keys[i]}: {item.name} ({item.value})"
ItemLine(self, i, item) ==
    <<self.keys[i]>> \o <<":", " ">> \o item.name \o <<" ", "(">>
        \o StrOf(item.value) \o <<")">>

\* A faulty NavDisplay: Next is listed before Previous.
NavDisplayNextFirst(self) ==
    (IF Truthy(self.first_page_key)
     THEN <<self.first_page_key \o <<":", " ", "First">>>> ELSE <<>>)
    \o (IF Truthy(self.next_page_key)
        THEN <<self.next_page_key \o <<":", " ", "Next">>>> ELSE <<>>)
    \o (IF Truthy(self.previous_page_key)
        THEN <<self.previous_page_key \o <<":", " ", "Previous">>>> ELSE <<>>)
    \o (IF Truthy(self.last_page_key)
        THEN <<self.last_page_key \o <<":", " ", "Last">>>> ELSE <<>>)

\* The legend: the truthy navigation keys as First, Previous, Next, Last.
NavDisplay(self) ==
    (IF Truthy(self.first_page_key)
     THEN <<self.first_page_key \o <<":", " ", "First">>>> ELSE <<>>)
    \o (IF Truthy(self.previous_page_key)
        THEN <<self.previous_page_key \o <<":", " ", "Previous">>>> ELSE <<>>)
    \o (IF Truthy(self.next_page_key)
        THEN <<self.next_page_key \o <<":", " ", "Next">>>> ELSE <<>>)
    \o (IF Truthy(self.last_page_key)
        THEN <<self.last_page_key \o <<":", " ", "Last">>>> ELSE <<>>)

\* A faulty display_page: the status line is left out.
DisplayPageWithoutStatus(self, page) ==
    LET items == get_page_items(self, page)
    IN  IF items = <<>> THEN <<"No items to display.">>
        ELSE Join(<<"\n">>,
                  [i \in 1..Len(items) |-> ItemLine(self, i, items[i])]
                  \o <<Join(<<" ">>, NavDisplay(self))>>
                  \o <<IntStr(page + 1) \o <<"/">> \o IntStr(self.total_pages)>>)

display_page(self, page) ==
    LET items == get_page_items(self, page)
    IN  IF items = <<>> THEN <<"No items to display.">>
        ELSE Join(<<"\n">>,
                  [i \in 1..Len(items) |-> ItemLine(self, i, items[i])]
                  \o <<Join(<<" ">>, NavDisplay(self))>>
                  \o <<IntStr(page + 1) \o <<"/">> \o IntStr(self.total_pages)>>
                  \o (IF self.status # <<>> THEN <<self.status>> ELSE <<>>))

(***************************************************************************)
(* PagedMenu.navigate                                                      *)
(***************************************************************************)
\* The first statement: an empty command selects the default.
SelectDefault(self, command) ==
    IF command = <<>>
    THEN [self EXCEPT !.selected = "True", !.selected_value = self.default]
    ELSE self

\* A faulty SelectKey: the index is looked up on the first page instead of
\* the current one.
SelectKeyOnFirstPage(self, command) ==
    LET index == StrIndex(command, self.keys)
        page  == get_page_items(self, 0)
    IN  IF index < Len(page)
        THEN [self  |-> [self EXCEPT !.selected = "True",
                                     !.selected_value = page[index + 1].value],
              error |-> NoError]
        ELSE [self |-> self, error |-> InvalidMenuKeyError(command)]

\* A faulty SelectKey: a key past the end of the page is ignored instead of
\* raising.
SelectKeyIgnoresGap(self, command) ==
    LET index == StrIndex(command, self.keys)
        page  == get_page_items(self, self.current_page)
    IN  IF index < Len(page)
        THEN [self  |-> [self EXCEPT !.selected = "True",
                                     !.selected_value = page[index + 1].value],
              error |-> NoError]
        ELSE [self |-> self, error |-> NoError]

\* The branch for a command found in self.keys.
SelectKey(self, command) ==
    LET index == StrIndex(command, self.keys)
        page  == get_page_items(self, self.current_page)
    IN  IF index < Len(page)
        THEN [self  |-> [self EXCEPT !.selected = "True",
                                     !.selected_value = page[index + 1].value],
              error |-> NoError]
        ELSE [self |-> self, error |-> InvalidMenuKeyError(command)]

\* A faulty NextPage: a successful step also clears status.
NextPageClearsStatus(self) ==
    IF self.current_page < self.total_pages - 1
    THEN [self EXCEPT !.current_page = @ + 1, !.status = <<>>]
    ELSE self

\* A faulty NextPage: the bound is off by one.
NextPageOffByOne(self) ==
    IF self.current_page < self.total_pages
    THEN [self EXCEPT !.current_page = @ + 1]
    ELSE self

\* if self.current_page < self.total_pages - 1: self.current_page += 1
NextPage(self) ==
    IF self.current_page < self.total_pages - 1
    THEN [self EXCEPT !.current_page = @ + 1]
    ELSE self

\* if self.current_page > 0: self.current_page -= 1
\* A faulty PreviousPage: it steps back from page 0 too.
PreviousPageUnguarded(self) == [self EXCEPT !.current_page = @ - 1]

PreviousPage(self) ==
    IF self.current_page > 0
    THEN [self EXCEPT !.current_page = @ - 1]
    ELSE self

\* self.current_page = 0
FirstPage(self) == [self EXCEPT !.current_page = 0]

\* A faulty LastPage: it lands one past the last page.
LastPagePastEnd(self) == [self EXCEPT !.current_page = self.total_pages]

\* self.current_page = self.total_pages - 1
LastPage(self) == [self EXCEPT !.current_page = self.total_pages - 1]

\* The if/elif chain that follows the first statement.
Dispatch(self, command) ==
    IF command = self.next_page_key
    THEN [self |-> NextPage(self), error |-> NoError]
    ELSE IF command = self.previous_page_key
    THEN [self |-> PreviousPage(self), error |-> NoError]
    ELSE IF command = self.first_page_key /\ Truthy(self.first_page_key)
    THEN [self |-> FirstPage(self), error |-> NoError]
    ELSE IF command = self.last_page_key /\ Truthy(self.last_page_key)
    THEN [self |-> LastPage(self), error |-> NoError]
    ELSE IF StrIn(command, self.keys)
    THEN SelectKey(self, command)
    ELSE [self |-> self, error |-> InvalidMenuKeyError(command)]

\* navigate(command): the object after the call and what the call raised.
navigate(self, command) == Dispatch(SelectDefault(self, command), command)

(***************************************************************************)
(* The state: the arguments of the constructor call, the ValueError it     *)
(* raised ("" for none), the PagedMenu object, where its caller is         *)
(* ("new": before the constructor call, "failed": the constructor raised,  *)
(* "idle": before run, "input": inside run, blocked in input(),           *)
(* "returned": run has returned and the session is over), the last call    *)
(* or loop turn with its outcome, and the text last printed.               *)
(***************************************************************************)
VARIABLES args, error, menu, pc, last, output

vars == <<args, error, menu, pc, last, output>>

\* Item values; default is none of them.
ValueNames == <<"A", "B", "C", "D", "E", "F", "G">>
DefaultValue == "default"

ValueItems(n) == [k \in 1..n |-> ValueNames[k]]

\* The keys arguments of a session.
SessionKeys ==
    {<<"a", "b">>, <<"a", "a">>, <<"a", "b", "c">>, <<"a", "b", "a">>,
     <<"a", "b", ".">>}

Args(n, page_size, keys, next, previous, first, lastkey) ==
    [menu_items        |-> None,
     value_items       |-> ValueItems(n),
     named_items       |-> None,
     id_items          |-> None,
     page_size         |-> page_size,
     keys              |-> keys,
     next_page_key     |-> next,
     previous_page_key |-> previous,
     first_page_key    |-> first,
     last_page_key     |-> lastkey,
     default           |-> DefaultValue]

\* Constructor arguments of the sessions: the navigation keys may coincide
\* with one another, and first and last may be disabled.
SessionArgs ==
    {Args(n, ps, k, <<".">>, p, f, l) :
        n \in 0..MaxItems, ps \in 2..MaxPageSize, k \in SessionKeys,
        p \in {<<",">>, <<".">>},
        f \in {None, <<"<">>, <<".">>},
        l \in {None, <<">">>, <<"<">>}}

\* Commands given to navigate directly, and lines typed into run.
CommandChars == {"a", "b", "c", ".", ",", "<", ">", "x"}
Commands ==
    {<<>>} \cup {<<c>> : c \in CommandChars} \cup {<<"a", "b">>, <<"b", "a">>}
Lines ==
    Commands \cup {<<" ">>, <<" ", "a">>, <<"b", " ">>, <<" ", ".", " ">>,
                   <<"a", " ", "b">>}

NoCall ==
    [op |-> "none", line |-> <<>>, command |-> <<>>, error |-> NoError,
     returned |-> Unset]

\* f"Error: {e.key} is not a valid menu key."
ErrorStatus(key) == <<"Error: ">> \o key \o <<" is not a valid menu key.">>

Init ==
    /\ args \in SessionArgs
    /\ ConfigError(args) = ""
    /\ error = ""
    /\ menu = PagedMenu(args)
    /\ pc = "idle"
    /\ last = NoCall
    /\ output = <<>>

\* A caller calls navigate(command) itself, outside run.
Navigate(command) ==
    /\ pc = "idle"
    /\ LET r == navigate(menu, command)
       IN  /\ menu' = r.self
           /\ last' = [op |-> "navigate", line |-> command,
                       command |-> command, error |-> r.error,
                       returned |-> Unset]
    /\ UNCHANGED <<args, error, pc, output>>

\* run() up to its first input(): the two assignments and the first print.
RunBegin ==
    /\ pc = "idle"
    /\ LET m == [menu EXCEPT !.selected = "False",
                             !.selected_value = menu.default]
       IN  /\ menu' = m
           /\ output' = display_page(m, m.current_page)
    /\ pc' = "input"
    /\ last' = [NoCall EXCEPT !.op = "run"]
    /\ UNCHANGED <<args, error>>

\* A faulty except clause: the error is swallowed and status is left alone.
RunExceptKeepsStatus(self, e) == self

\* What the except clause of run does with the error navigate raised.
RunExcept(self, e) == [self EXCEPT !.status = ErrorStatus(e.key)]

\* One turn of the loop of run from the line input() returns: strip,
\* navigate, then return, or go round and print the page again.
RunInput(line) ==
    /\ pc = "input"
    /\ LET command == Strip(line)
           r       == navigate(menu, command)
           call    == [op |-> "input", line |-> line, command |-> command,
                       error |-> r.error, returned |-> Unset]
       IN  IF r.error.raised
           THEN LET m == RunExcept(r.self, r.error)
                IN  /\ menu' = m
                    /\ output' = display_page(m, m.current_page)
                    /\ pc' = "input"
                    /\ last' = call
           ELSE IF r.self.selected = "True"
           THEN /\ menu' = r.self
                /\ pc' = "returned"
                /\ last' = [call EXCEPT !.op = "return",
                                        !.returned = r.self.selected_value]
                /\ UNCHANGED output
           ELSE /\ menu' = r.self
                /\ output' = display_page(r.self, r.self.current_page)
                /\ pc' = "input"
                /\ last' = call
    /\ UNCHANGED <<args, error>>

Next ==
    \/ \E command \in Commands : Navigate(command)
    \/ RunBegin
    \/ \E line \in Lines : RunInput(line)

Spec == Init /\ [][Next]_vars

(***************************************************************************)
(* The constructor call on its own, over arguments that violate each of    *)
(* its checks.                                                             *)
(***************************************************************************)
\* No PagedMenu object.
NoObject == [exists |-> FALSE]

RECURSIVE StringsOver(_, _)
StringsOver(chars, n) ==
    IF n = 0 THEN {<<>>}
    ELSE LET shorter == StringsOver(chars, n - 1)
         IN  shorter \cup {Append(s, c) : s \in shorter, c \in chars}

CtorKeyChars == {"a", ".", ",", "<", ">"}

CtorArgs ==
    {Args(n, ps, k, nx, pv, f, l) :
        n \in {0, 2}, ps \in 0..MaxPageSize,
        k \in StringsOver(CtorKeyChars, MaxKeysLen),
        nx \in {<<".">>, <<>>, <<".", ",">>},
        pv \in {<<",">>},
        f \in {None, <<>>, <<"<">>},
        l \in {None, <<">">>}}

InitCtor ==
    /\ args \in CtorArgs
    /\ error = ""
    /\ menu = NoObject
    /\ pc = "new"
    /\ last = NoCall
    /\ output = <<>>

\* PagedMenu(...): the call raises ValueError and leaves no object, or
\* returns the new object.
Construct ==
    /\ pc = "new"
    /\ IF ConfigError(args) # ""
       THEN /\ error' = ConfigError(args)
            /\ pc' = "failed"
            /\ UNCHANGED menu
       ELSE /\ menu' = PagedMenu(args)
            /\ pc' = "idle"
            /\ UNCHANGED error
    /\ UNCHANGED <<args, last, output>>

NextCtor == Construct

CtorSpec == InitCtor /\ [][NextCtor]_vars

(***************************************************************************)
(* get_page_items called by a caller, for pages in and out of range.       *)
(***************************************************************************)
\* Construction from the four item inputs. Each input is absent (None) or
\* a list of at most MaxListLen elements; a list of MenuItem objects or of
\* tuples has no length 1, because TLC cannot compare such a list with None.
ListsOver(elems, lens) ==
    {s \in StringsOver(elems, MaxListLen) : Len(s) \in lens}

StructuredLens == {0} \cup 2..MaxListLen

RawItems == {MenuItem("A", None, None), MenuItem("B", <<"b">>, <<"i">>)}

NamedPairs == {<<<<"n">>, "A">>, <<<<"m">>, "C">>}

IdTriples == {<<"A", <<"n">>, <<"i">>>>, <<"D", None, None>>}

InitParse ==
    /\ \E gm \in BOOLEAN, gv \in BOOLEAN, gn \in BOOLEAN, gi \in BOOLEAN :
       \E m \in ListsOver(RawItems, StructuredLens),
          v \in ListsOver({"A", "B"}, 0..MaxListLen),
          n \in ListsOver(NamedPairs, StructuredLens),
          t \in ListsOver(IdTriples, StructuredLens) :
            args = [Args(0, 2, <<"a", "b">>, <<".">>, <<",">>, None, None)
                        EXCEPT !.menu_items = IF gm THEN m ELSE None,
                               !.value_items = IF gv THEN v ELSE None,
                               !.named_items = IF gn THEN n ELSE None,
                               !.id_items = IF gi THEN t ELSE None]
    /\ error = ""
    /\ menu = NoObject
    /\ pc = "new"
    /\ last = NoCall
    /\ output = <<>>

ParseSpec == InitParse /\ [][NextCtor]_vars

ProbePages == (0 - MaxProbe)..MaxProbe

\* A caller calls get_page_items(page) and gets the list it returns.
GetPageItems(page) ==
    /\ pc = "idle"
    /\ last' = [op |-> "get_page_items", page |-> page,
                returned |-> get_page_items(menu, page)]
    /\ UNCHANGED <<args, error, menu, pc, output>>

NextPages == \E page \in ProbePages : GetPageItems(page)

PageSpec == Init /\ [][NextPages]_vars

(***************************************************************************)
(* Properties.                                                             *)
(*                                                                         *)
(* Processed holds in the state a navigate call leaves: last.command is    *)
(* the command it was given, whether a caller made the call or run did.    *)
(* In an action formula the unprimed menu is the object before the call.   *)
(***************************************************************************)
Processed == last.op \in {"navigate", "input", "return"}

\* The number of items on the current page.
PageLen == Len(get_page_items(menu, menu.current_page))

\* The item at position i (from 0) of the current page.
ItemAt(i) == menu.items[menu.current_page * menu.page_size + i + 1]

\* C1: after navigate has processed the empty command, directly or inside
\* run, selected_value is the configured default, and a run that returns
\* on it returns the default.
C1_EmptyCommandYieldsDefault ==
    (Processed /\ last.command = <<>>)
        => /\ menu.selected_value = menu.default
           /\ (last.op = "return" => last.returned = menu.default)

NextEffect ==
    (Processed' /\ last'.command = menu.next_page_key)
        => /\ ~last'.error.raised
           /\ menu'.current_page =
                  IF menu.current_page < menu.total_pages - 1
                  THEN menu.current_page + 1
                  ELSE menu.current_page

\* What the previous_page_key command does to the page.
PreviousEffect ==
    (Processed' /\ last'.command = menu.previous_page_key)
        => /\ ~last'.error.raised
           /\ menu'.current_page =
                  IF menu.current_page > 0
                  THEN menu.current_page - 1
                  ELSE menu.current_page

\* C3 as stated: next_page_key adds exactly 1 to current_page below the
\* last page and otherwise leaves it, previous_page_key takes exactly 1
\* from it above page 0 and otherwise leaves it, and neither raises; so a
\* command repeated at its boundary keeps the page.
C3_NextAndPreviousStepOrStay == [][NextEffect /\ PreviousEffect]_vars

\* C3 amended: the same, the previous_page_key part for a
\* previous_page_key that differs from next_page_key (the command of a key
\* shared by both is the next-page command).
C3_NextAndDistinctPreviousStepOrStay ==
    [][/\ NextEffect
       /\ (menu.previous_page_key # menu.next_page_key => PreviousEffect)]_vars

\* C3 witness: a caller's previous_page_key command has just taken a menu
\* of 3 pages to page 1, with distinct next and previous keys.
C3_Witness ==
    /\ last.op = "navigate"
    /\ last.command = menu.previous_page_key
    /\ menu.previous_page_key # menu.next_page_key
    /\ menu.total_pages = 3
    /\ menu.current_page = 1

\* The first_page_key command lands on page 0.
FirstEffect ==
    (Processed' /\ last'.command = menu.first_page_key)
        => /\ ~last'.error.raised
           /\ menu'.current_page = 0

\* The last_page_key command lands on the last page.
LastEffect ==
    (Processed' /\ last'.command = menu.last_page_key)
        => /\ ~last'.error.raised
           /\ menu'.current_page = menu.total_pages - 1

\* With first_page_key disabled, no command jumps to page 0: page 0 is
\* reached only from page 1 or 0, or as the last page.
NoFirstJump ==
    (Processed' /\ menu'.current_page = 0)
        => menu.current_page \in {0, 1} \/ menu.total_pages = 1

\* With last_page_key disabled, no command jumps to the last page: it is
\* reached only from itself or the page before it, or as page 0.
NoLastJump ==
    (Processed' /\ menu'.current_page = menu.total_pages - 1)
        => \/ menu.current_page \in
                  {menu.total_pages - 1, menu.total_pages - 2}
           \/ menu.total_pages = 1

\* C4 as stated: an enabled first_page_key sets current_page to 0 and an
\* enabled last_page_key sets it to total_pages - 1, from any page; for a
\* disabled key no command makes that jump.
C4_FirstAndLastJump ==
    [][/\ (Truthy(menu.first_page_key) => FirstEffect)
       /\ (Truthy(menu.last_page_key) => LastEffect)
       /\ (~Truthy(menu.first_page_key) => NoFirstJump)
       /\ (~Truthy(menu.last_page_key) => NoLastJump)]_vars

\* C4 amended: the same, for an enabled first_page_key that differs from
\* next_page_key and previous_page_key, and an enabled last_page_key that
\* differs from next_page_key, previous_page_key and an enabled
\* first_page_key (a shared key is the command of the earlier branch).
C4_DistinctFirstAndLastJump ==
    [][/\ ((/\ Truthy(menu.first_page_key)
            /\ menu.first_page_key
                   \notin {menu.next_page_key, menu.previous_page_key})
               => FirstEffect)
       /\ ((/\ Truthy(menu.last_page_key)
            /\ menu.last_page_key
                   \notin {menu.next_page_key, menu.previous_page_key}
            /\ ~(/\ Truthy(menu.first_page_key)
                 /\ menu.last_page_key = menu.first_page_key))
               => LastEffect)
       /\ (~Truthy(menu.first_page_key) => NoFirstJump)
       /\ (~Truthy(menu.last_page_key) => NoLastJump)]_vars

\* C4 witness: the last_page_key command, of a key no other navigation key
\* shares, has just put a menu of 3 pages on page 2.
C4_Witness ==
    /\ Processed
    /\ Truthy(menu.last_page_key)
    /\ last.command = menu.last_page_key
    /\ menu.last_page_key
           \notin {menu.next_page_key, menu.previous_page_key,
                   menu.first_page_key}
    /\ menu.total_pages = 3
    /\ menu.current_page = 2

\* t is l without its leading and trailing whitespace.
TrimmedFrom(t, l) ==
    /\ t = <<>> \/ (t[1] \notin Whitespace /\ t[Len(t)] \notin Whitespace)
    /\ \E lead \in 0..Len(l) :
          /\ lead + Len(t) <= Len(l)
          /\ \A k \in 1..Len(l) :
                IF k > lead /\ k <= lead + Len(t)
                THEN l[k] = t[k - lead]
                ELSE l[k] \in Whitespace

\* C5: when navigate raises InvalidMenuKeyError for a line typed into run,
\* the error does not leave run: status is exactly
\* "Error: <token> is not a valid menu key." with <token> the trimmed line,
\* the page has been printed again and run is back in input().
C5_InvalidKeyBecomesStatus ==
    ((last.op \in {"input", "return"} /\ last.error.raised)
        => /\ last.op = "input"
           /\ pc = "input"
           /\ TrimmedFrom(last.command, last.line)
           /\ last.error.key = last.command
           /\ menu.status = <<"Error: ">> \o last.command
                                \o <<" is not a valid menu key.">>
           /\ output = display_page(menu, menu.current_page))
    /\ (pc = "returned" => last.op = "return" /\ ~last.error.raised)

\* C5 witness: the line "b " was rejected inside run and the status names b.
C5_Witness ==
    /\ last.op = "input"
    /\ last.error.raised
    /\ last.line = <<"b", " ">>
    /\ pc = "input"
    /\ menu.status = <<"Error: ", "b", " is not a valid menu key.">>

\* c is a selection key within the bounds of the current page.
SelectsInBounds(c) ==
    \E i \in 0..(Len(menu.keys) - 1) : c = <<menu.keys[i + 1]>> /\ i < PageLen

\* C6: run returns on a command only if it is empty or a selection key
\* within the bounds of the current page, it returns on the first such
\* command, and it is never back in input() with the selected flag set.
C6_RunReturnsAtFirstSelection ==
    /\ (last.op = "return"
           => last.command = <<>> \/ SelectsInBounds(last.command))
    /\ (last.op = "input"
           => ~(last.command = <<>> \/ SelectsInBounds(last.command)))
    /\ (pc = "input" => menu.selected # "True")

\* k occurs in keys.
Occurs(k, keys) ==
    \E i \in 0..(Len(keys) - Len(k)) : \A j \in 1..Len(k) : keys[i + j] = k[j]

\* An optional navigation key is enabled when it is given and not empty.
Enabled(k) == k # None /\ k # <<>>

\* The checks of the constructor, in order, each TRUE when violated, and
\* the error of each.
Violations(a) ==
    <<a.page_size < 2,
      Len(a.keys) < 2,
      Len(a.keys) < a.page_size,
      Occurs(a.next_page_key, a.keys),
      Occurs(a.previous_page_key, a.keys),
      Enabled(a.first_page_key) /\ Occurs(a.first_page_key, a.keys),
      Enabled(a.last_page_key) /\ Occurs(a.last_page_key, a.keys)>>

Messages ==
    <<"Page size less than 2",
      "Less than 2 keys defined",
      "Not enough keys for the page size",
      "Next page key cannot be used as menu key",
      "Previous page key cannot be used as menu key",
      "First page key cannot be used as menu key",
      "Last page key cannot be used as menu key">>

\* C7: the constructor call succeeds if and only if page_size >= 2,
\* len(keys) >= 2, len(keys) >= page_size and neither next_page_key,
\* previous_page_key nor an enabled first_page_key or last_page_key occurs
\* in keys; when it fails, it raises the error of the first violated check
\* in the order of Messages and leaves no object.
C7_ConstructionSucceedsIffValid ==
    pc # "new"
        => LET violated == {i \in 1..7 : Violations(args)[i]}
           IN  IF violated = {}
               THEN pc = "idle" /\ error = "" /\ menu # NoObject
               ELSE /\ pc = "failed"
                    /\ menu = NoObject
                    /\ \E i \in violated :
                          /\ \A j \in violated : i <= j
                          /\ error = Messages[i]

\* C7 witness: keys holds next_page_key and previous_page_key, nothing
\* earlier is violated, and the call failed with the next-page collision.
C7_Witness ==
    /\ pc = "failed"
    /\ args.page_size >= 2
    /\ Len(args.keys) >= args.page_size
    /\ Occurs(args.next_page_key, args.keys)
    /\ Occurs(args.previous_page_key, args.keys)
    /\ error = "Next page key cannot be used as menu key"

\* The navigation keys that are in use.
EnabledNavigationKeys ==
    {menu.next_page_key, menu.previous_page_key}
        \cup {k \in {menu.first_page_key, menu.last_page_key} : Enabled(k)}

\* C8: a command that is not empty, not an enabled navigation key and not
\* one single character of keys makes navigate raise InvalidMenuKeyError
\* carrying it, and run does not return on it.
C8_OtherTokensRaise ==
    (/\ Processed
     /\ last.command # <<>>
     /\ last.command \notin EnabledNavigationKeys
     /\ ~(/\ Len(last.command) = 1
          /\ \E i \in 1..Len(menu.keys) : menu.keys[i] = last.command[1]))
        => /\ last.error = InvalidMenuKeyError(last.command)
           /\ last.op # "return"

\* The command keys[i] raises InvalidMenuKeyError naming it and leaves the
\* selection as it was.
GapKeyRaises(i) ==
    (Processed' /\ last'.command = <<menu.keys[i + 1]>>)
        => /\ last'.error = InvalidMenuKeyError(<<menu.keys[i + 1]>>)
           /\ last'.op # "return"
           /\ menu'.selected = menu.selected
           /\ menu'.selected_value = menu.selected_value
           /\ menu'.current_page = menu.current_page

\* On the last page the next_page_key command keeps the page.
NextKeepsLastPage ==
    (/\ Processed'
     /\ last'.command = menu.next_page_key
     /\ menu.current_page = menu.total_pages - 1)
        => menu'.current_page = menu.current_page

C10_EmptyMenuStaysOnPageZero ==
    menu.total_pages = 0 => menu.current_page = 0

\* C11: total_pages is ceil(len(items) / page_size), 0 for no items, and
\* whatever commands navigate has been given, items, page_size, keys, the
\* navigation keys and default are what the constructor made of its
\* arguments.
C11_TotalPagesIsCeilingAndConfigFixed ==
    /\ menu.total_pages * menu.page_size >= Len(menu.items)
    /\ (menu.total_pages - 1) * menu.page_size < Len(menu.items)
    /\ (Len(menu.items) = 0 => menu.total_pages = 0)
    /\ Len(menu.items) = Len(args.value_items)
    /\ \A k \in 1..Len(menu.items) : menu.items[k].value = args.value_items[k]
    /\ menu.page_size = args.page_size
    /\ menu.keys = [i \in 1..args.page_size |-> args.keys[i]]
    /\ menu.next_page_key = args.next_page_key
    /\ menu.previous_page_key = args.previous_page_key
    /\ menu.first_page_key = args.first_page_key
    /\ menu.last_page_key = args.last_page_key
    /\ menu.default = args.default

\* C11 witness: 5 items in pages of 2 make 3 pages, still so when run has
\* returned from page 2.
C11_Witness ==
    /\ last.op = "return"
    /\ Len(menu.items) = 5
    /\ menu.page_size = 2
    /\ menu.total_pages = 3
    /\ menu.current_page = 2

\* The pages 0..n-1 one after the other.
RECURSIVE ConcatPages(_)
ConcatPages(n) ==
    IF n <= 0 THEN <<>>
    ELSE ConcatPages(n - 1) \o get_page_items(menu, n - 1)

\* C12: for a page p in 0..total_pages-1, get_page_items(p) is
\* items[p*page_size .. min(len(items), (p+1)*page_size)) in order; it
\* holds between 1 and page_size items, fewer than page_size only on the
\* last page; and the pages in order make up items.
C12_PageIsContiguousSlice ==
    /\ (last.op = "get_page_items"
        /\ 0 <= last.page /\ last.page < menu.total_pages)
          => LET lo == last.page * menu.page_size
                 hi == IF Len(menu.items) < lo + menu.page_size
                       THEN Len(menu.items)
                       ELSE lo + menu.page_size
             IN  /\ last.returned = [j \in 1..(hi - lo) |-> menu.items[lo + j]]
                 /\ 1 <= Len(last.returned)
                 /\ Len(last.returned) <= menu.page_size
                 /\ (Len(last.returned) < menu.page_size
                        => last.page = menu.total_pages - 1)
    /\ ConcatPages(menu.total_pages) = menu.items

\* C12 witness: page 2 of A..E in pages of 2 was asked for and is E alone.
C12_Witness ==
    /\ last.op = "get_page_items"
    /\ last.page = 2
    /\ menu.page_size = 2
    /\ Len(menu.items) = 5
    /\ Len(last.returned) = 1
    /\ last.returned[1].value = "E"

\* C18: for a page below 0 or from total_pages on, get_page_items returns
\* the empty list.
C18_OutOfRangePageIsEmpty ==
    (last.op = "get_page_items"
     /\ (last.page < 0 \/ last.page >= menu.total_pages))
        => last.returned = <<>>

\* The text s ends with the line t.
EndsWithLine(s, t) ==
    /\ Len(s) > Len(t)
    /\ s[Len(s) - Len(t)] = "\n"
    /\ SubSeq(s, Len(s) - Len(t) + 1, Len(s)) = t

\* The status line for the command run has just rejected.
RejectedStatusLine ==
    <<"Error: ">> \o last.command \o <<" is not a valid menu key.">>

\* C13 as stated: after a command rejected inside run, whatever the page
\* and the items, run is still running and the page it has printed next
\* ends with the status line "Error: <token> is not a valid menu key.".
C13_NextRenderShowsError ==
    (last.op \in {"input", "return"} /\ last.error.raised)
        => /\ pc = "input"
           /\ EndsWithLine(output, RejectedStatusLine)

\* C13 amended: the same when the current page holds at least one item; on
\* a page of no items the next render is the no-items message alone.
C13_NextRenderOfItemsShowsError ==
    (last.op \in {"input", "return"} /\ last.error.raised)
        => /\ pc = "input"
           /\ (PageLen >= 1 => EndsWithLine(output, RejectedStatusLine))
           /\ (PageLen = 0 => output = <<"No items to display.">>)

\* C13 witness: on page 1 of a menu with items the command x was rejected
\* and the page printed next ends with the status line naming x.
C13_Witness ==
    /\ last.op = "input"
    /\ last.error.raised
    /\ last.command = <<"x">>
    /\ menu.current_page = 1
    /\ PageLen >= 1
    /\ EndsWithLine(output, <<"Error: ", "x", " is not a valid menu key.">>)

\* The lines of a text: the text cut at each "\n".
RECURSIVE SplitLines(_)
SplitLines(s) ==
    IF \A k \in 1..Len(s) : s[k] # "\n" THEN <<s>>
    ELSE LET cut == CHOOSE k \in 1..Len(s) :
                        s[k] = "\n" /\ \A j \in 1..(k - 1) : s[j] # "\n"
         IN  <<SubSeq(s, 1, cut - 1)>> \o SplitLines(SubSeq(s, cut + 1, Len(s)))

\* The legend entries in their fixed order, the disabled ones left out.
LegendEntries ==
    SelectSeq(<<[key |-> menu.first_page_key, label |-> "First"],
                [key |-> menu.previous_page_key, label |-> "Previous"],
                [key |-> menu.next_page_key, label |-> "Next"],
                [key |-> menu.last_page_key, label |-> "Last"]>>,
              LAMBDA e : Enabled(e.key))

\* "<key>: <label>" of each entry, one blank between two entries.
RECURSIVE LegendText(_)
LegendText(entries) ==
    IF entries = <<>> THEN <<>>
    ELSE entries[1].key \o <<":", " ", entries[1].label>>
         \o (IF Len(entries) = 1 THEN <<>>
             ELSE <<" ">> \o LegendText(Tail(entries)))

\* The page run has printed while it waits in input(): the rendering of
\* the current page and status.
RenderedPage ==
    pc = "input"
        => IF PageLen = 0 THEN output = <<"No items to display.">>
           ELSE LET lines == SplitLines(output)
                IN  /\ Len(lines) =
                           PageLen + 2 + (IF menu.status # <<>> THEN 1 ELSE 0)
                    /\ \A j \in 1..PageLen :
                          lines[j] =
                              <<menu.keys[j], ":", " ">> \o ItemAt(j - 1).name
                                  \o <<" ", "(", ItemAt(j - 1).value, ")">>
                    /\ lines[PageLen + 1] = LegendText(LegendEntries)
                    /\ lines[PageLen + 2] =
                           IntStr(menu.current_page + 1) \o <<"/">>
                               \o IntStr(menu.total_pages)
                    /\ (menu.status # <<>>
                           => lines[PageLen + 3] = menu.status)

\* Entering run assigns selected and selected_value and prints the page;
\* the printing changes nothing of the menu.
RenderKeepsMenu ==
    last'.op = "run"
        => menu' = [menu EXCEPT !.selected = "False",
                                !.selected_value = menu.default]

\* C15: display_page of a page with items is one line "<key>: <name>
\* (<value>)" per item, pairing the j-th item with keys[j], then the legend
\* of the enabled navigation keys as First, Previous, Next, Last, then
\* "<page+1>/<total_pages>", then the status line if and only if status is
\* not empty; of a page without items it is the no-items message alone;
\* and it changes no menu state.
C15_DisplayPageLayout == [](RenderedPage) /\ [][RenderKeepsMenu]_vars

\* C15 witness: run shows page 1 of a menu whose first_page_key is
\* disabled, with a status line.
C15_Witness ==
    /\ pc = "input"
    /\ menu.current_page = 1
    /\ PageLen = 2
    /\ menu.first_page_key = None
    /\ menu.status # <<>>
    /\ Len(SplitLines(output)) = 5

\* An item input as a list: an absent input is the empty list.
Given(l) == IF l = None THEN <<>> ELSE l

\* C14: the items built at construction are the raw MenuItem objects, then
\* the bare values, then the (name, value) pairs, then the (value, name,
\* id) triples, each as a MenuItem (name defaulting to str(value), id to
\* hash(value)), every input in its own order with its duplicates; the
\* length is the sum of the four lengths, absent and empty inputs adding
\* nothing.
C14_ItemsAreTheFourInputsInOrder ==
    pc = "idle"
        => LET m == Given(args.menu_items)
               v == Given(args.value_items)
               n == Given(args.named_items)
               t == Given(args.id_items)
               items == menu.items
           IN  /\ Len(items) = Len(m) + Len(v) + Len(n) + Len(t)
               /\ \A k \in 1..Len(m) : items[k] = m[k]
               /\ \A k \in 1..Len(v) :
                     items[Len(m) + k] =
                         [value |-> v[k], name |-> StrOf(v[k]),
                          id |-> HashOf(v[k])]
               /\ \A k \in 1..Len(n) :
                     items[Len(m) + Len(v) + k] =
                         [value |-> n[k][2], name |-> n[k][1],
                          id |-> HashOf(n[k][2])]
               /\ \A k \in 1..Len(t) :
                     items[Len(m) + Len(v) + Len(n) + k] =
                         [value |-> t[k][1],
                          name |-> IF t[k][2] = None THEN StrOf(t[k][1])
                                   ELSE t[k][2],
                          id |-> IF t[k][3] = None THEN HashOf(t[k][1])
                                 ELSE t[k][3]]

\* C14 witness: a menu built from two raw items, the value A twice, two
\* named pairs and two id triples has eight items, the two A's at
\* positions 3 and 4.
C14_Witness ==
    /\ pc = "idle"
    /\ Len(Given(args.menu_items)) = 2
    /\ args.value_items = <<"A", "A">>
    /\ Len(Given(args.named_items)) = 2
    /\ Len(Given(args.id_items)) = 2
    /\ Len(menu.items) = 8
    /\ menu.items[3] = menu.items[4]
    /\ menu.items[3].value = "A"

\* With at least one item the current page is a page of the menu.
CurrentPageInRange ==
    Len(menu.items) >= 1
        => /\ 0 <= menu.current_page
           /\ menu.current_page <= menu.total_pages - 1

\* A step that changes current_page is a navigate call, direct or inside
\* run, whose command is one of the enabled navigation keys.
PageChangedByNavigationOnly ==
    menu'.current_page # menu.current_page
        => /\ last'.op \in {"navigate", "input", "return"}
           /\ last'.command \in EnabledNavigationKeys

\* C16: on a menu with at least one item 0 <= current_page <=
\* total_pages - 1 in every reachable state, and current_page is changed
\* only by the navigation commands: the empty command, selections and
\* invalid commands leave it as it was.
C16_CurrentPageInRangeAndNavigationOnly ==
    [](CurrentPageInRange) /\ [][PageChangedByNavigationOnly]_vars

\* C16 witness: the last-page command has moved a five-item menu to its
\* last page 2 and nothing was selected or raised.
C16_Witness ==
    /\ last.op = "navigate"
    /\ last.command = <<">">>
    /\ menu.last_page_key = <<">">>
    /\ ~last.error.raised
    /\ Len(menu.items) = 5
    /\ menu.page_size = 2
    /\ menu.current_page = 2
    /\ menu.selected = Unset

\* A step changes status only when run catches an invalid key, and then
\* to the error text of that key.
StatusChangedByErrorOnly ==
    menu'.status # menu.status
        => /\ last'.op = "input"
           /\ last'.error.raised
           /\ menu'.status =
                  <<"Error: ">> \o last'.error.key
                      \o <<" is not a valid menu key.">>

\* No step resets a stored status to the empty string.
StatusNeverCleared == menu.status # <<>> => menu'.status # <<>>

\* C17: a stored error status stays the same text across every later
\* successful navigation command, is replaced only when a later invalid
\* key overwrites it, and is never reset to the empty string.
C17_StatusPersistsUntilNextError ==
    [][StatusChangedByErrorOnly /\ StatusNeverCleared]_vars

\* C17 witness: run has just carried out the next-page command and shows
\* page 1, and status still is the error of the earlier command x.
C17_Witness ==
    /\ pc = "input"
    /\ last.op = "input"
    /\ last.command = menu.next_page_key
    /\ ~last.error.raised
    /\ menu.current_page = 1
    /\ menu.status = <<"Error: ", "x", " is not a valid menu key.">>

\* The active keys are the first page_size characters of the configured
\* keys.
ActiveKeysArePrefix ==
    /\ menu.page_size <= Len(args.keys)
    /\ menu.keys = SubSeq(args.keys, 1, menu.page_size)

\* No navigation key in use occurs anywhere in the configured keys, the
\* characters past page_size included.
NoNavigationKeyInConfiguredKeys ==
    \A k \in EnabledNavigationKeys : ~StrIn(k, args.keys)

\* The last command is the character at some position >= page_size (from
\* 0) of the configured keys.
CommandIsKeyPastPageSize ==
    /\ Processed
    /\ Len(last.command) = 1
    /\ \E p \in (menu.page_size + 1)..Len(args.keys) :
          args.keys[p] = last.command[1]

\* C19 as stated: the active keys are the first page_size characters of
\* keys; navigate raises InvalidMenuKeyError for a character of keys at a
\* position >= page_size, on every page; and the constructor has checked
\* the navigation keys against the whole of keys.
C19_KeysPastPageSizeAreRejected ==
    /\ ActiveKeysArePrefix
    /\ NoNavigationKeyInConfiguredKeys
    /\ CommandIsKeyPastPageSize
           => (last.error.raised /\ last.error.key = last.command)

\* C19 amended: the same for a character at a position >= page_size that
\* does not also occur among the first page_size characters.
C19_NewKeysPastPageSizeAreRejected ==
    /\ ActiveKeysArePrefix
    /\ NoNavigationKeyInConfiguredKeys
    /\ (CommandIsKeyPastPageSize /\ ~StrIn(last.command, menu.keys))
           => (last.error.raised /\ last.error.key = last.command)

\* C19 witness: keys is abc with page_size 2, so the active keys are ab,
\* and the command c was rejected on a page of two items.
C19_Witness ==
    /\ Processed
    /\ args.keys = <<"a", "b", "c">>
    /\ menu.page_size = 2
    /\ menu.keys = <<"a", "b">>
    /\ last.command = <<"c">>
    /\ last.error.raised
    /\ PageLen = 2
    /\ menu.selected # "True"

\* Outside run a raising navigate leaves current_page, selected and
\* selected_value as they were; inside run the except clause adds nothing
\* to these three.
FailedNavigateKeepsPageAndSelection ==
    (last'.op \in {"navigate", "input"} /\ last'.error.raised)
        => /\ menu'.current_page = menu.current_page
           /\ menu'.selected = menu.selected
           /\ menu'.selected_value = menu.selected_value

\* C20: whenever navigate raises InvalidMenuKeyError, current_page,
\* selected and selected_value have the values they had before the call,
\* whatever the command and the menu state, an empty page included.
C20_FailedNavigateIsAtomic == [][FailedNavigateKeepsPageAndSelection]_vars

\* Inside run, on a page shown without a status line, the next-page
\* command on a page before the last one shows the following page and
\* stores no status.
NextReachesFollowingPage ==
    (/\ pc = "input"
     /\ last'.op \in {"input", "return"}
     /\ last'.command = menu.next_page_key
     /\ menu.current_page < menu.total_pages - 1)
        => /\ pc' = "input"
           /\ menu'.current_page = menu.current_page + 1
           /\ menu'.status = menu.status

\* Inside run, for every item k of the page shown, the command
\* keys[k mod page_size] makes run return items[k].value.
KeyOfItemReturnsItem ==
    \A k \in 0..(Len(menu.items) - 1) :
        (/\ pc = "input"
         /\ last'.op \in {"input", "return"}
         /\ k \div menu.page_size = menu.current_page
         /\ last'.command = <<menu.keys[(k % menu.page_size) + 1]>>)
            => /\ pc' = "returned"
               /\ last'.returned = menu.items[k + 1].value

\* C21: every item is selectable: from a fresh menu, k div page_size
\* next-page commands followed by keys[k mod page_size] make run return
\* items[k].value, for every item index k. Each next-page command shows
\* the following page, and on the page of item k its key returns it.
C21_EveryItemIsSelectable ==
    [][NextReachesFollowingPage /\ KeyOfItemReturnsItem]_vars

====
